---- MODULE Spec2Model ----
(***************************************************************************)
(* Speed-test client (src/ClientState.py) and server                       *)
(* (src/SpeedTestServer.py): the client's state machine, its discovery     *)
(* listener, its TCP and UDP transfer workers, and the server's TCP and    *)
(* UDP responders.                                                         *)
(*                                                                         *)
(* Representation choices                                                  *)
(*  - text (console input, the TCP request line) is a sequence of          *)
(*    one-character strings;                                               *)
(*  - a datagram is a record [bytes, fill]: the bytes it starts with       *)
(*    followed by `fill' filler bytes b'0' (the code never looks at        *)
(*    payload contents, only at their number);                             *)
(*  - struct's '!I' field is kept as its four big-endian bytes (the magic  *)
(*    cookie 0xabcddcba is beyond 32-bit signed integers); !H and !Q       *)
(*    fields are decoded to integers;                                      *)
(*  - None is -1 where the value is otherwise an unsigned integer, and     *)
(*    the empty tuple where it is otherwise a tuple.                       *)
(***************************************************************************)
EXTENDS Integers, Sequences, FiniteSets, TLC

VARIABLES
    \* ---- client, src/ClientState.py
    state,            \* self.state
    running,          \* self.running
    current_server,   \* self.current_server: <<>> (None) or <<ip, udp_port, tcp_port>>
    file_size,        \* self.file_size
    tcp_connections,  \* self.tcp_connections
    udp_connections,  \* self.udp_connections
    pc,               \* where the main thread is
    delivered,        \* datagrams the network has handed to the client in this phase
                      \* (one listening, or one speed test up to its join), those
                      \* it lost on the way to a worker included
    tcp_workers,      \* the TCP worker threads of this cycle, by connection_id
    udp_workers,      \* the UDP worker threads of this cycle, by connection_id
    log,              \* the lines the client logged in the step just taken
    \* ---- server, src/SpeedTestServer.py
    tcp_client,       \* one _handle_tcp_client thread and its connection
    udp_client        \* one request at _handle_udp_connections and its _handle_udp_client thread

client_vars == <<state, running, current_server, file_size, tcp_connections,
                 udp_connections, pc, delivered, tcp_workers, udp_workers, log>>
server_vars == <<tcp_client, udp_client>>
vars == <<state, running, current_server, file_size, tcp_connections,
          udp_connections, pc, delivered, tcp_workers, udp_workers, log,
          tcp_client, udp_client>>

-----------------------------------------------------------------------------
(* Bounds of the model *)

\* largest file size typed at the client's prompt
MaxFileSize == 2
\* largest number of worker threads (TCP and UDP together) asked for in one cycle
MaxThreads == 2
\* datagrams the network hands to the client's sockets in one phase
MaxDatagrams == 2
\* largest totalSegments a Payload frame arriving at a client worker carries
MaxSeg == 2
\* largest number of bytes one TCP recv of a client worker returns
MaxRecv == 2
\* whole chunks in the file size asked of a server responder
MaxChunks == 2
\* bytes the asked file size lies off a chunk boundary
MaxRem == 1
\* bytes a send call of the TCP responder may fall short of what it was given
MaxShort == 1
\* the small file size of the runs of the client against the server
MaxSmallFile == 12

-----------------------------------------------------------------------------
(* Program constants *)

\* 0xabcddcba, as struct packs it with '!I'
MAGIC_COOKIE == <<171, 205, 220, 186>>
OFFER_MESSAGE_TYPE == 2
REQUEST_MESSAGE_TYPE == 3
PAYLOAD_MESSAGE_TYPE == 4

None == -1
NoServer == <<>>

Min(a, b) == IF a <= b THEN a ELSE b

-----------------------------------------------------------------------------
(* Text: int(), str(), str.lower(), str.strip() *)

DigitChars == <<"0", "1", "2", "3", "4", "5", "6", "7", "8", "9">>
IsDigit(c) == \E i \in 1..10 : DigitChars[i] = c
DigitOf(c) == (CHOOSE i \in 1..10 : DigitChars[i] = c) - 1
IsSpace(c) == c \in {" ", "\n", "\t", "\r"}

RECURSIVE LStrip(_)
LStrip(s) == IF s # <<>> /\ IsSpace(Head(s)) THEN LStrip(Tail(s)) ELSE s

RECURSIVE RStrip(_)
RStrip(s) ==
    IF s # <<>> /\ IsSpace(s[Len(s)]) THEN RStrip(SubSeq(s, 1, Len(s) - 1)) ELSE s

\* str.strip()
Strip(s) == RStrip(LStrip(s))

RECURSIVE DecVal(_)
DecVal(s) ==
    IF s = <<>> THEN 0
    ELSE DecVal(SubSeq(s, 1, Len(s) - 1)) * 10 + DigitOf(s[Len(s)])

\* the digits of int(s): s stripped, without its sign
IntBody(s) ==
    LET t == Strip(s)
    IN  IF t # <<>> /\ t[1] \in {"-", "+"} THEN Tail(t) ELSE t

\* int(s) returns (otherwise it raises ValueError)
IntParses(s) ==
    /\ IntBody(s) # <<>>
    /\ \A i \in 1..Len(IntBody(s)) : IsDigit(IntBody(s)[i])

\* int(s), where it returns
IntOf(s) ==
    LET t == Strip(s)
    IN  IF t[1] = "-" THEN 0 - DecVal(IntBody(s)) ELSE DecVal(IntBody(s))

RECURSIVE NatStr(_)
NatStr(n) ==
    IF n < 10 THEN <<DigitChars[n + 1]>>
    ELSE NatStr(n \div 10) \o <<DigitChars[(n % 10) + 1]>>

\* str(n), as an f-string formats an int
Str(n) == IF n < 0 THEN <<"-">> \o NatStr(0 - n) ELSE NatStr(n)

\* str.lower(), on the letters the model types
Lower(s) == [i \in 1..Len(s) |-> IF s[i] = "Y" THEN "y" ELSE IF s[i] = "N" THEN "n" ELSE s[i]]

-----------------------------------------------------------------------------
(* Bytes: struct.pack, struct.unpack, slices *)

RECURSIVE BE(_, _)
\* v in k bytes, network byte order
BE(k, v) == IF k = 0 THEN <<>> ELSE BE(k - 1, v \div 256) \o <<v % 256>>

RECURSIVE FromBE(_)
FromBE(b) ==
    IF b = <<>> THEN 0
    ELSE FromBE(SubSeq(b, 1, Len(b) - 1)) * 256 + b[Len(b)]

\* 'b': a signed char
PackB(v) == <<(v + 256) % 256>>
UnpackB(byte) == IF byte >= 128 THEN byte - 256 ELSE byte

Datagram(bytes, fill) == [bytes |-> bytes, fill |-> fill]
\* len(data)
DLen(d) == Len(d.bytes) + d.fill
\* data[:k]
Slice(d, k) ==
    IF k <= Len(d.bytes) THEN SubSeq(d.bytes, 1, k)
    ELSE d.bytes \o [i \in 1..Min(k - Len(d.bytes), d.fill) |-> 48]

\* struct.pack('!IbHH', cookie, type, udp_port, tcp_port)
PackOffer(cookie, type, udp_port, tcp_port) ==
    cookie \o PackB(type) \o BE(2, udp_port) \o BE(2, tcp_port)
\* the Offer decoded with its two ports in the other order
UnpackOffer_PortsSwapped(b) ==
    [magic_cookie |-> SubSeq(b, 1, 4),
     msg_type     |-> UnpackB(b[5]),
     udp_port     |-> FromBE(SubSeq(b, 8, 9)),
     tcp_port     |-> FromBE(SubSeq(b, 6, 7))]

\* struct.unpack('!IbHH', b) returns (otherwise it raises struct.error)
UnpackOfferOk(b) == Len(b) = 9
UnpackOffer(b) ==
    [magic_cookie |-> SubSeq(b, 1, 4),
     msg_type     |-> UnpackB(b[5]),
     udp_port     |-> FromBE(SubSeq(b, 6, 7)),
     tcp_port     |-> FromBE(SubSeq(b, 8, 9))]

\* struct.pack('!IbQ', cookie, type, file_size)
PackRequest(cookie, type, size) == cookie \o PackB(type) \o BE(8, size)
UnpackRequestOk(b) == Len(b) = 13
UnpackRequest(b) ==
    [magic_cookie |-> SubSeq(b, 1, 4),
     msg_type     |-> UnpackB(b[5]),
     file_size    |-> FromBE(SubSeq(b, 6, 13))]

\* struct.calcsize('!IbQQ')
header_size == 21
\* struct.pack('!IbQQ', cookie, type, total_segments, current_segment)
PackHeader(cookie, type, total, seg) ==
    cookie \o PackB(type) \o BE(8, total) \o BE(8, seg)
UnpackHeaderOk(b) == Len(b) = header_size
UnpackHeader(b) ==
    [magic_cookie |-> SubSeq(b, 1, 4),
     msg_type     |-> UnpackB(b[5]),
     total_segs   |-> FromBE(SubSeq(b, 6, 13)),
     current_seg  |-> FromBE(SubSeq(b, 14, 21))]

-----------------------------------------------------------------------------
(* What the console and the network can hand to the client *)

\* input() raises EOFError / KeyboardInterrupt instead of returning a line
EOF == <<"EOFError">>
SIGINT == <<"KeyboardInterrupt">>

FileSizeLines ==
    {Str(n) : n \in {0 - 1, 0, MaxFileSize - 1, MaxFileSize}}
    \cup {<<" ", "1">>, <<"x">>, <<>>}
ConnLines == {Str(n) : n \in (0 - 1)..MaxThreads} \cup {<<"x">>}
AnswerLines == {<<"y">>, <<"Y">>, <<"n">>, <<"y", "e", "s">>, <<>>}

BAD_COOKIE == <<171, 205, 220, 187>>
Hosts == {"192.0.2.5", "192.0.2.9"}
UdpPorts == {13117}
TcpPorts == {12345}

\* a well-formed Offer, as broadcast_offers packs it
GoodOffer == PackOffer(MAGIC_COOKIE, OFFER_MESSAGE_TYPE, 13117, 12345)

\* datagrams that reach the discovery port
OfferDatagrams ==
    {Datagram(PackOffer(MAGIC_COOKIE, OFFER_MESSAGE_TYPE, u, t), 0) :
        u \in UdpPorts, t \in TcpPorts}
    \cup {Datagram(PackOffer(BAD_COOKIE, OFFER_MESSAGE_TYPE, 13117, 12345), 0),
          Datagram(PackOffer(MAGIC_COOKIE, REQUEST_MESSAGE_TYPE, 13117, 12345), 0),
          Datagram(SubSeq(GoodOffer, 1, 8), 0),
          Datagram(<<>>, 0),
          Datagram(GoodOffer, 1)}

\* datagrams that reach a UDP worker's socket
PayloadDatagrams ==
    {Datagram(PackHeader(MAGIC_COOKIE, PAYLOAD_MESSAGE_TYPE, total, seg), 1) :
        total \in {0, MaxSeg - 1, MaxSeg}, seg \in 0..(MaxSeg - 1)}
ForeignDatagrams ==
    {Datagram(PackHeader(BAD_COOKIE, PAYLOAD_MESSAGE_TYPE, 1, 0), 1),
     Datagram(PackHeader(MAGIC_COOKIE, OFFER_MESSAGE_TYPE, 1, 0), 1)}
ShortDatagrams ==
    {Datagram(SubSeq(PackHeader(MAGIC_COOKIE, PAYLOAD_MESSAGE_TYPE, 1, 0), 1, 20), 0)}
WorkerDatagrams == PayloadDatagrams \cup ForeignDatagrams \cup ShortDatagrams

-----------------------------------------------------------------------------
(* Client: construction and the main loop *)

\* a logging.info / logging.error call: who logs (the main thread, or the
\* worker thread of a connection_id), which message, and the numbers in it
LogLine(thread, id, msg, speed_bits, success_rate) ==
    [thread |-> thread, id |-> id, msg |-> msg,
     speed_bits |-> speed_bits, success_rate |-> success_rate]
MainLog(msg) == LogLine("main", 0, msg, 0, 0)
NoLog == <<>>

\* SpeedTestClient.__init__ (file_size and the connection counts are set by
\* _handle_startup before anything reads them)
ClientInit ==
    /\ state = "STARTUP"
    /\ running = FALSE
    /\ current_server = NoServer
    /\ file_size = 0
    /\ tcp_connections = 0
    /\ udp_connections = 0
    /\ pc = "new"
    /\ delivered = 0
    /\ tcp_workers = <<>>
    /\ udp_workers = <<>>
    /\ log = NoLog

\* start(): self.running = True, then the loop
Start ==
    /\ pc = "new"
    /\ running' = TRUE
    /\ pc' = "loop"
    /\ UNCHANGED <<state, current_server, file_size, tcp_connections,
                   udp_connections, delivered, tcp_workers, udp_workers>>
    /\ log' = NoLog
    /\ UNCHANGED server_vars

\* int(input(...)): "none" when it returns, else the exception it raises
ReadExc(line) ==
    IF line = EOF THEN "EOFError"
    ELSE IF line = SIGINT THEN "KeyboardInterrupt"
    ELSE IF IntParses(line) THEN "none"
    ELSE "ValueError"

\* int(input(...)) on a typed line: the exception raised and the value returned
ReadInt(line) ==
    [exc |-> ReadExc(line), val |-> IF ReadExc(line) = "none" THEN IntOf(line) ELSE 0]
FileSizeInputs == {ReadInt(line) : line \in FileSizeLines \cup {EOF, SIGINT}}
ConnInputs == {ReadInt(line) : line \in ConnLines \cup {EOF, SIGINT}}

\* the connection counts typed ask for at most MaxThreads threads
WithinThreads(r2, r3) ==
    (r2.exc = "none" /\ r3.exc = "none" /\ r2.val >= 0 /\ r3.val >= 0)
        => r2.val + r3.val <= MaxThreads

\* a line after the one at which int(input(...)) raised is never read: the
\* model lets it be "0"
NotRead == ReadInt(<<"0">>)
ReadInOrder(r1, r2, r3) ==
    /\ r1.exc # "none" => r2 = NotRead
    /\ (r1.exc # "none" \/ r2.exc # "none") => r3 = NotRead

\* _handle_startup without its test of the values read
HandleStartup_NoValidation(r1, r2, r3) ==
    /\ pc = "loop" /\ running /\ state = "STARTUP"
    /\ ReadInOrder(r1, r2, r3)
    /\ WithinThreads(r2, r3)
    /\ LET e1 == r1.exc
           e2 == IF e1 = "none" THEN r2.exc ELSE e1
           e3 == IF e2 = "none" THEN r3.exc ELSE e2
           exc == e3
       IN  /\ file_size' = IF e1 = "none" THEN r1.val ELSE file_size
           /\ tcp_connections' = IF e2 = "none" THEN r2.val ELSE tcp_connections
           /\ udp_connections' = IF e3 = "none" THEN r3.val ELSE udp_connections
           /\ state' = IF exc = "none" THEN "LOOKING_FOR_SERVER" ELSE state
           /\ running' = (exc # "KeyboardInterrupt")
           /\ pc' = IF exc = "KeyboardInterrupt" THEN "exit" ELSE "loop"
           /\ log' = IF exc = "none" THEN <<MainLog("Client started")>>
                     ELSE IF exc = "ValueError" THEN <<MainLog("Invalid input")>>
                     ELSE IF exc = "EOFError" THEN <<MainLog("Error in main loop")>>
                     ELSE NoLog
    /\ UNCHANGED <<current_server, delivered, tcp_workers, udp_workers>>
    /\ UNCHANGED server_vars

\* _handle_startup, with what the three int(input(...)) give, and start()'s
\* except clauses
HandleStartup(r1, r2, r3) ==
    /\ pc = "loop" /\ running /\ state = "STARTUP"
    /\ ReadInOrder(r1, r2, r3)
    /\ WithinThreads(r2, r3)
    /\ LET e1 == r1.exc
           e2 == IF e1 = "none" THEN r2.exc ELSE e1
           e3 == IF e2 = "none" THEN r3.exc ELSE e2
           exc == IF e3 # "none" THEN e3
                  ELSE IF r1.val <= 0 \/ r2.val < 0 \/ r3.val < 0
                       THEN "ValueError"
                       ELSE "none"
       IN  /\ file_size' = IF e1 = "none" THEN r1.val ELSE file_size
           /\ tcp_connections' = IF e2 = "none" THEN r2.val ELSE tcp_connections
           /\ udp_connections' = IF e3 = "none" THEN r3.val ELSE udp_connections
           /\ state' = IF exc = "none" THEN "LOOKING_FOR_SERVER" ELSE state
           /\ running' = (exc # "KeyboardInterrupt")
           /\ pc' = IF exc = "KeyboardInterrupt" THEN "exit" ELSE "loop"
           /\ log' = IF exc = "none" THEN <<MainLog("Client started")>>
                     ELSE IF exc = "ValueError" THEN <<MainLog("Invalid input")>>
                     ELSE IF exc = "EOFError" THEN <<MainLog("Error in main loop")>>
                     ELSE NoLog
    /\ UNCHANGED <<current_server, delivered, tcp_workers, udp_workers>>
    /\ UNCHANGED server_vars

\* _look_for_server up to its first recvfrom: the socket is bound
BeginListen ==
    /\ pc = "loop" /\ running /\ state = "LOOKING_FOR_SERVER"
    /\ pc' = "listen"
    /\ delivered' = 0
    /\ UNCHANGED <<state, running, current_server, file_size, tcp_connections,
                   udp_connections, tcp_workers, udp_workers>>
    /\ log' = NoLog
    /\ UNCHANGED server_vars

\* the acceptance test without its comparison of the cookie
OfferAccepted_NoCookie(data) ==
    /\ ~(DLen(data) < 9)
    /\ UnpackOfferOk(Slice(data, DLen(data)))
    /\ UnpackOffer(data.bytes).msg_type = OFFER_MESSAGE_TYPE

\* the Offer is accepted: length, unpack, cookie and type all pass
OfferAccepted(data) ==
    /\ ~(DLen(data) < 9)
    /\ UnpackOfferOk(Slice(data, DLen(data)))
    /\ UnpackOffer(data.bytes).magic_cookie = MAGIC_COOKIE
    /\ UnpackOffer(data.bytes).msg_type = OFFER_MESSAGE_TYPE

\* a listener that accepts an Offer without recording its sender
ListenRecv_NoRecord(data, ip) ==
    /\ pc = "listen" /\ state = "LOOKING_FOR_SERVER"
    /\ delivered < MaxDatagrams
    /\ delivered' = delivered + 1
    /\ IF OfferAccepted(data)
       THEN /\ state' = "SPEED_TEST"
            /\ pc' = "loop"
            /\ log' = <<MainLog("Received offer")>>
       ELSE /\ UNCHANGED <<state, pc>>
            /\ log' = NoLog
    /\ UNCHANGED <<running, current_server, file_size, tcp_connections,
                   udp_connections, tcp_workers, udp_workers>>
    /\ UNCHANGED server_vars

\* one pass of _look_for_server's loop: recvfrom returns (data, addr)
ListenRecv(data, ip) ==
    /\ pc = "listen" /\ state = "LOOKING_FOR_SERVER"
    /\ delivered < MaxDatagrams
    /\ delivered' = delivered + 1
    /\ IF OfferAccepted(data)
       THEN /\ current_server' = <<ip, UnpackOffer(data.bytes).udp_port,
                                   UnpackOffer(data.bytes).tcp_port>>
            /\ state' = "SPEED_TEST"
            /\ pc' = "loop"
            /\ log' = <<MainLog("Received offer")>>
       ELSE /\ UNCHANGED <<current_server, state, pc>>
            /\ log' = NoLog
    /\ UNCHANGED <<running, file_size, tcp_connections, udp_connections,
                   tcp_workers, udp_workers>>
    /\ UNCHANGED server_vars

\* an interruption that also ends the threads of the cycle
Interrupt_KillsWorkers ==
    /\ pc \in {"listen", "spawn"} /\ running
    /\ running' = FALSE
    /\ pc' = "exit"
    /\ tcp_workers' = [i \in DOMAIN tcp_workers |-> [tcp_workers[i] EXCEPT !.pc = "done"]]
    /\ udp_workers' = [i \in DOMAIN udp_workers |-> [udp_workers[i] EXCEPT !.pc = "done"]]
    /\ UNCHANGED <<state, current_server, file_size, tcp_connections,
                   udp_connections, delivered>>
    /\ log' = NoLog
    /\ UNCHANGED server_vars

\* KeyboardInterrupt while the main thread waits in recvfrom, starts threads or
\* joins them: start() catches it and leaves the loop
Interrupt ==
    /\ pc \in {"listen", "spawn"} /\ running
    /\ running' = FALSE
    /\ pc' = "exit"
    /\ UNCHANGED <<state, current_server, file_size, tcp_connections,
                   udp_connections, delivered, tcp_workers, udp_workers>>
    /\ log' = NoLog
    /\ UNCHANGED server_vars

\* _prompt_continue going back to the listener on 'y'
PromptContinue_Relisten(line) ==
    /\ pc = "loop" /\ running /\ state = "PROMPT_CONTINUE"
    /\ IF line = SIGINT
       THEN /\ running' = FALSE /\ pc' = "exit" /\ UNCHANGED state
            /\ log' = NoLog
       ELSE IF line = EOF
       THEN /\ running' = FALSE /\ pc' = "exit" /\ UNCHANGED state
            /\ log' = <<MainLog("Error in prompt")>>
       ELSE IF Lower(line) = <<"y">>
       THEN /\ state' = "LOOKING_FOR_SERVER" /\ UNCHANGED <<running, pc>>
            /\ log' = NoLog
       ELSE /\ running' = FALSE /\ pc' = "exit" /\ UNCHANGED state
            /\ log' = NoLog
    /\ UNCHANGED <<current_server, file_size, tcp_connections, udp_connections,
                   delivered, tcp_workers, udp_workers>>
    /\ UNCHANGED server_vars

\* _prompt_continue, with the line typed
PromptContinue(line) ==
    /\ pc = "loop" /\ running /\ state = "PROMPT_CONTINUE"
    /\ IF line = SIGINT
       THEN /\ running' = FALSE /\ pc' = "exit" /\ UNCHANGED state
            /\ log' = NoLog
       ELSE IF line = EOF
       THEN /\ running' = FALSE /\ pc' = "exit" /\ UNCHANGED state
            /\ log' = <<MainLog("Error in prompt")>>
       ELSE IF Lower(line) = <<"y">>
       THEN /\ state' = "STARTUP" /\ UNCHANGED <<running, pc>>
            /\ log' = NoLog
       ELSE /\ running' = FALSE /\ pc' = "exit" /\ UNCHANGED state
            /\ log' = NoLog
    /\ UNCHANGED <<current_server, file_size, tcp_connections, udp_connections,
                   delivered, tcp_workers, udp_workers>>
    /\ UNCHANGED server_vars

-----------------------------------------------------------------------------
(* Client: _perform_speed_test *)

TcpIds == DOMAIN tcp_workers
UdpIds == DOMAIN udp_workers
WorkersDone ==
    /\ \A i \in TcpIds : tcp_workers[i].pc = "done"
    /\ \A i \in UdpIds : udp_workers[i].pc = "done"

\* a thread that has been started and has not yet run
NewTcpWorker == [pc |-> "start", received |-> 0]
NewUdpWorker ==
    [pc |-> "start", received_segments |-> {}, total_segments |-> None,
     received_bytes |-> 0]
\* a thread that has ended: its locals are gone
DoneTcpWorker == [NewTcpWorker EXCEPT !.pc = "done"]
DoneUdpWorker == [NewUdpWorker EXCEPT !.pc = "done"]

\* _perform_speed_test up to its first loop: threads = []
BeginSpeedTest ==
    /\ pc = "loop" /\ running /\ state = "SPEED_TEST"
    /\ IF current_server = NoServer
       THEN /\ state' = "LOOKING_FOR_SERVER"
            /\ UNCHANGED <<pc, delivered, tcp_workers, udp_workers>>
       ELSE /\ pc' = "spawn"
            /\ delivered' = 0
            /\ tcp_workers' = <<>>
            /\ udp_workers' = <<>>
            /\ UNCHANGED state
    /\ UNCHANGED <<running, current_server, file_size, tcp_connections,
                   udp_connections>>
    /\ log' = NoLog
    /\ UNCHANGED server_vars

\* one pass of "for i in range(self.tcp_connections)": thread.start()
SpawnTcp ==
    /\ pc = "spawn"
    /\ Len(tcp_workers) < tcp_connections
    /\ tcp_workers' = Append(tcp_workers, NewTcpWorker)
    /\ UNCHANGED <<state, running, current_server, file_size, tcp_connections,
                   udp_connections, pc, delivered, udp_workers>>
    /\ log' = NoLog
    /\ UNCHANGED server_vars

\* a spawn loop that counts udp_connections down as it starts threads
SpawnUdp_CountsDown ==
    /\ pc = "spawn"
    /\ ~(Len(tcp_workers) < tcp_connections)
    /\ Len(udp_workers) < udp_connections
    /\ udp_workers' = Append(udp_workers, NewUdpWorker)
    /\ udp_connections' = udp_connections - 1
    /\ UNCHANGED <<state, running, current_server, file_size, tcp_connections,
                   pc, delivered, tcp_workers>>
    /\ log' = NoLog
    /\ UNCHANGED server_vars

\* one pass of "for i in range(self.udp_connections)": thread.start()
SpawnUdp ==
    /\ pc = "spawn"
    /\ ~(Len(tcp_workers) < tcp_connections)
    /\ Len(udp_workers) < udp_connections
    /\ udp_workers' = Append(udp_workers, NewUdpWorker)
    /\ UNCHANGED <<state, running, current_server, file_size, tcp_connections,
                   udp_connections, pc, delivered, tcp_workers>>
    /\ log' = NoLog
    /\ UNCHANGED server_vars

\* _perform_speed_test without its join loop
JoinAll_NoBarrier ==
    /\ pc = "spawn"
    /\ ~(Len(tcp_workers) < tcp_connections)
    /\ ~(Len(udp_workers) < udp_connections)
    /\ log' = <<MainLog("All transfers complete")>>
    /\ state' = "PROMPT_CONTINUE"
    /\ pc' = "loop"
    /\ delivered' = 0
    /\ UNCHANGED <<running, current_server, file_size, tcp_connections,
                   udp_connections, tcp_workers, udp_workers>>
    /\ UNCHANGED server_vars

\* "for thread in threads: thread.join()" returns, the line is logged, the state
\* is set and the method returns
JoinAll ==
    /\ pc = "spawn"
    /\ ~(Len(tcp_workers) < tcp_connections)
    /\ ~(Len(udp_workers) < udp_connections)
    /\ WorkersDone
    /\ log' = <<MainLog("All transfers complete")>>
    /\ state' = "PROMPT_CONTINUE"
    /\ pc' = "loop"
    /\ delivered' = 0
    /\ UNCHANGED <<running, current_server, file_size, tcp_connections,
                   udp_connections, tcp_workers, udp_workers>>
    /\ UNCHANGED server_vars

-----------------------------------------------------------------------------
(* Client: _handle_tcp_connection, one thread per connection_id.  A step of a
   worker yields the worker after it and the lines it logged. *)

Step(w, lines) == [w |-> w, lines |-> lines]
\* the lines a step logged
Logged(step) == step.lines

\* "TCP transfer #id finished": speed = (self.file_size * 8) / duration
TcpFinished(id) == LogLine("tcp", id, "finished", file_size * 8, 100)
\* "Error in TCP connection #id"
TcpError(id) == LogLine("tcp", id, "error", 0, 0)

\* after a chunk: the loop goes on while received < self.file_size
TcpAfter(w, id, received) ==
    IF received < file_size
    THEN Step([w EXCEPT !.pc = "recv", !.received = received], <<>>)
    ELSE Step(DoneTcpWorker, <<TcpFinished(id)>>)

\* socket(), connect(), send() of the request line; ok = none of them raises
TcpConnectStep(w, id, ok) ==
    IF ok THEN TcpAfter(w, id, 0) ELSE Step(DoneTcpWorker, <<TcpError(id)>>)

TcpConnect(i, ok) ==
    /\ i \in TcpIds /\ tcp_workers[i].pc = "start"
    /\ tcp_workers' = [tcp_workers EXCEPT ![i] = TcpConnectStep(@, i, ok).w]
    /\ log' = Logged(TcpConnectStep(tcp_workers[i], i, ok))
    /\ UNCHANGED <<state, running, current_server, file_size, tcp_connections,
                   udp_connections, pc, delivered, udp_workers>>
    /\ UNCHANGED server_vars

\* sock.recv(4096) returns n bytes; n = 0 is the empty chunk of a closed connection
TcpRecvStep(w, id, n) ==
    IF n = 0 THEN Step(DoneTcpWorker, <<TcpFinished(id)>>)
    ELSE TcpAfter(w, id, w.received + n)

TcpRecv(i, n) ==
    /\ i \in TcpIds /\ tcp_workers[i].pc = "recv"
    /\ n <= 4096
    /\ tcp_workers' = [tcp_workers EXCEPT ![i] = TcpRecvStep(@, i, n).w]
    /\ log' = Logged(TcpRecvStep(tcp_workers[i], i, n))
    /\ UNCHANGED <<state, running, current_server, file_size, tcp_connections,
                   udp_connections, pc, delivered, udp_workers>>
    /\ UNCHANGED server_vars

\* a failing recv that stops the client
TcpRecvError_Abort(i) ==
    /\ i \in TcpIds /\ tcp_workers[i].pc = "recv"
    /\ tcp_workers' = [tcp_workers EXCEPT ![i] = DoneTcpWorker]
    /\ log' = <<TcpError(i)>>
    /\ running' = FALSE
    /\ UNCHANGED <<state, current_server, file_size, tcp_connections,
                   udp_connections, pc, delivered, udp_workers>>
    /\ UNCHANGED server_vars

\* sock.recv raises: except Exception logs the error
TcpRecvError(i) ==
    /\ i \in TcpIds /\ tcp_workers[i].pc = "recv"
    /\ tcp_workers' = [tcp_workers EXCEPT ![i] = DoneTcpWorker]
    /\ log' = <<TcpError(i)>>
    /\ UNCHANGED <<state, running, current_server, file_size, tcp_connections,
                   udp_connections, pc, delivered, udp_workers>>
    /\ UNCHANGED server_vars

-----------------------------------------------------------------------------
(* Client: _handle_udp_connection, one thread per connection_id *)

\* len(received_segments) / total_segments * 100 if total_segments else 0,
\* in whole percent
SuccessRate(received_segments, total_segments) ==
    IF total_segments # None /\ total_segments # 0
    THEN (Cardinality(received_segments) * 100) \div total_segments
    ELSE 0

\* "UDP transfer #id finished": speed = (received_bytes * 8) / duration
UdpFinished(w, id) ==
    LogLine("udp", id, "finished", w.received_bytes * 8,
            SuccessRate(w.received_segments, w.total_segments))
\* "Error in UDP connection #id"
UdpError(id) == LogLine("udp", id, "error", 0, 0)

\* a thread that logs its result and then an error as well
UdpFinish_AlsoError(w, id) == Step(DoneUdpWorker, <<UdpFinished(w, id), UdpError(id)>>)

\* the loop is left, the line is logged and the thread ends
UdpFinish(w, id) == Step(DoneUdpWorker, <<UdpFinished(w, id)>>)

\* socket(), settimeout(), pack and sendto() of the Request; ok = none raises
UdpSendRequest(i, ok) ==
    /\ i \in UdpIds /\ udp_workers[i].pc = "start"
    /\ udp_workers' =
         [udp_workers EXCEPT ![i] = IF ok THEN [@ EXCEPT !.pc = "recv"] ELSE DoneUdpWorker]
    /\ log' = IF ok THEN NoLog ELSE <<UdpError(i)>>
    /\ UNCHANGED <<state, running, current_server, file_size, tcp_connections,
                   udp_connections, pc, delivered, tcp_workers>>
    /\ UNCHANGED server_vars

\* the pass of the receive loop without its test for completion
UdpAfterDatagram_NoStop(w, id, data) ==
    LET header == Slice(data, header_size)
        h == UnpackHeader(header)
        seen == w.received_segments \cup {h.current_seg}
        next == [w EXCEPT !.total_segments = h.total_segs,
                          !.received_segments = seen,
                          !.received_bytes = @ + (DLen(data) - header_size)]
    IN  IF ~UnpackHeaderOk(header)
        THEN Step(DoneUdpWorker, <<UdpError(id)>>)
        ELSE IF h.magic_cookie # MAGIC_COOKIE \/ h.msg_type # PAYLOAD_MESSAGE_TYPE
        THEN Step(w, <<>>)
        ELSE Step(next, <<>>)

\* one pass of the receive loop in which recvfrom returned data
UdpAfterDatagram(w, id, data) ==
    LET header == Slice(data, header_size)
        h == UnpackHeader(header)
        seen == w.received_segments \cup {h.current_seg}
        next == [w EXCEPT !.total_segments = h.total_segs,
                          !.received_segments = seen,
                          !.received_bytes = @ + (DLen(data) - header_size)]
    IN  IF ~UnpackHeaderOk(header)
        THEN \* struct.error reaches the outer except Exception
             Step(DoneUdpWorker, <<UdpError(id)>>)
        ELSE IF h.magic_cookie # MAGIC_COOKIE \/ h.msg_type # PAYLOAD_MESSAGE_TYPE
        THEN Step(w, <<>>)
        ELSE IF h.total_segs # 0 /\ Cardinality(seen) = h.total_segs
        THEN UdpFinish(next, id)
        ELSE Step(next, <<>>)

\* sock.recvfrom(2048) returns data
UdpRecv(i, data) ==
    /\ i \in UdpIds /\ udp_workers[i].pc = "recv"
    /\ delivered < MaxDatagrams
    /\ delivered' = delivered + 1
    /\ udp_workers' = [udp_workers EXCEPT ![i] = UdpAfterDatagram(@, i, data).w]
    /\ log' = Logged(UdpAfterDatagram(udp_workers[i], i, data))
    /\ UNCHANGED <<state, running, current_server, file_size, tcp_connections,
                   udp_connections, pc, tcp_workers>>
    /\ UNCHANGED server_vars

\* a timeout after which the loop is not left
UdpTimeout_KeepWaiting(i) ==
    /\ i \in UdpIds /\ udp_workers[i].pc = "recv"
    /\ log' = NoLog
    /\ UNCHANGED <<state, running, current_server, file_size, tcp_connections,
                   udp_connections, pc, delivered, tcp_workers, udp_workers>>
    /\ UNCHANGED server_vars

\* sock.recvfrom raises socket.timeout: the 1.0 s timeout ran from a call made
\* after last_packet_time was taken, so time.time() - last_packet_time >= 1.0
UdpTimeout(i) ==
    /\ i \in UdpIds /\ udp_workers[i].pc = "recv"
    /\ udp_workers' = [udp_workers EXCEPT ![i] = UdpFinish(@, i).w]
    /\ log' = Logged(UdpFinish(udp_workers[i], i))
    /\ UNCHANGED <<state, running, current_server, file_size, tcp_connections,
                   udp_connections, pc, delivered, tcp_workers>>
    /\ UNCHANGED server_vars

\* sock.recvfrom raises another socket error: except Exception logs the error
UdpRecvError(i) ==
    /\ i \in UdpIds /\ udp_workers[i].pc = "recv"
    /\ udp_workers' = [udp_workers EXCEPT ![i] = DoneUdpWorker]
    /\ log' = <<UdpError(i)>>
    /\ UNCHANGED <<state, running, current_server, file_size, tcp_connections,
                   udp_connections, pc, delivered, tcp_workers>>
    /\ UNCHANGED server_vars

-----------------------------------------------------------------------------
(* Server: _handle_tcp_client, the thread of one accepted connection *)

\* chunk_size of _handle_tcp_client
tcp_chunk_size == 4096
\* chunk_size of _handle_udp_client
udp_chunk_size == 1024

\* sizes a client asks for: around whole numbers of chunks
SizesAround(chunk) ==
    {k * chunk + r : k \in 0..MaxChunks, r \in (0 - MaxRem)..MaxRem} \cap Nat

\* f"{self.file_size}\n", what a client sends on its connection
RequestLine(size) == Str(size) \o <<"\n">>

\* no connection accepted
IdleTcpClient ==
    [pc |-> "idle", inbound |-> <<>>, file_size |-> 0, remaining |-> 0,
     sent |-> 0, logged |-> "none"]
\* accept() returned a connection on which the client's request line arrives
AcceptedTcpClient(size) == [IdleTcpClient EXCEPT !.pc = "recv", !.inbound = RequestLine(size)]

\* client_socket.recv(1024) returns the first k characters in flight (k = 0:
\* the empty string of a closed connection), then int(data.strip())
TcpClientRecvStep(c, k) ==
    LET data == SubSeq(c.inbound, 1, k)
    IN  IF ~IntParses(data)
        THEN \* ValueError: except Exception logs the error, finally closes
             [c EXCEPT !.pc = "closed", !.inbound = <<>>, !.logged = "error"]
        ELSE IF IntOf(data) > 0
        THEN [c EXCEPT !.pc = "send", !.inbound = SubSeq(@, k + 1, Len(@)),
                       !.file_size = IntOf(data), !.remaining = IntOf(data)]
        ELSE \* while remaining > 0 is not entered
             [c EXCEPT !.pc = "closed", !.inbound = SubSeq(@, k + 1, Len(@)),
                       !.file_size = IntOf(data), !.remaining = IntOf(data),
                       !.logged = "completed"]

TcpClientRecv(k) ==
    /\ tcp_client.pc = "recv"
    /\ k <= Min(1024, Len(tcp_client.inbound))
    /\ tcp_client' = TcpClientRecvStep(tcp_client, k)
    /\ UNCHANGED udp_client
    /\ UNCHANGED client_vars

\* a responder that returns after its loop without closing the connection
TcpClientSendStep_KeepsOpen(c, accepted) ==
    LET send_size == Min(tcp_chunk_size, c.remaining)
        remaining == c.remaining - send_size
    IN  [c EXCEPT !.sent = @ + accepted,
                  !.remaining = remaining,
                  !.pc = IF remaining > 0 THEN "send" ELSE "open",
                  !.logged = IF remaining > 0 THEN "none" ELSE "completed"]

\* one pass of "while remaining > 0": client_socket.send(b'0' * send_size)
\* returns accepted, the number of bytes it took; its value is not looked at
TcpClientSendStep(c, accepted) ==
    LET send_size == Min(tcp_chunk_size, c.remaining)
        remaining == c.remaining - send_size
    IN  [c EXCEPT !.sent = @ + accepted,
                  !.remaining = remaining,
                  !.pc = IF remaining > 0 THEN "send" ELSE "closed",
                  !.logged = IF remaining > 0 THEN "none" ELSE "completed"]

TcpClientSend(short) ==
    /\ tcp_client.pc = "send"
    /\ short < Min(tcp_chunk_size, tcp_client.remaining)
    /\ tcp_client' =
         TcpClientSendStep(tcp_client, Min(tcp_chunk_size, tcp_client.remaining) - short)
    /\ UNCHANGED udp_client
    /\ UNCHANGED client_vars

\* client_socket.send raises: except Exception logs the error, finally closes
TcpClientSendError ==
    /\ tcp_client.pc = "send"
    /\ tcp_client' = [tcp_client EXCEPT !.pc = "closed", !.logged = "error"]
    /\ UNCHANGED udp_client
    /\ UNCHANGED client_vars

-----------------------------------------------------------------------------
(* Server: _handle_udp_connections and the _handle_udp_client thread of one
   request *)

\* datagrams that reach the server's UDP port
RequestDatagrams ==
    {Datagram(PackRequest(MAGIC_COOKIE, REQUEST_MESSAGE_TYPE, size), fill) :
        size \in SizesAround(udp_chunk_size), fill \in {0, 1}}
    \cup {Datagram(PackRequest(BAD_COOKIE, REQUEST_MESSAGE_TYPE, 1), 0),
          Datagram(PackRequest(MAGIC_COOKIE, OFFER_MESSAGE_TYPE, 1), 0),
          Datagram(SubSeq(PackRequest(MAGIC_COOKIE, REQUEST_MESSAGE_TYPE, 1), 1, 12), 0)}

\* _handle_udp_connections waits in recvfrom
ListeningUdp ==
    [pc |-> "listen", file_size |-> 0, segments |-> 0, i |-> 0, out |-> <<>>,
     logged |-> "none"]

\* the request passes _handle_udp_connections' checks
RequestAccepted(data) ==
    /\ ~(DLen(data) < 13)
    /\ UnpackRequestOk(Slice(data, 13))
    /\ UnpackRequest(Slice(data, 13)).magic_cookie = MAGIC_COOKIE
    /\ UnpackRequest(Slice(data, 13)).msg_type = REQUEST_MESSAGE_TYPE

\* the segment count without the segment of the remainder
Segments_Floor(size) == size \div udp_chunk_size

\* segments = file_size // chunk_size, plus one if file_size % chunk_size != 0
Segments(size) ==
    IF size % udp_chunk_size # 0
    THEN (size \div udp_chunk_size) + 1
    ELSE size \div udp_chunk_size

\* "UDP transfer completed" is logged once range(segments) is used up
UdpClientAt(c, i) ==
    [c EXCEPT !.i = i,
              !.pc = IF i < c.segments THEN "send" ELSE "done",
              !.logged = IF i < c.segments THEN "none" ELSE "completed"]

\* one pass of _handle_udp_connections' loop: recvfrom returns data; a request
\* that passes starts a _handle_udp_client thread
UdpServerRecvStep(c, data) ==
    IF RequestAccepted(data)
    THEN LET size == UnpackRequest(Slice(data, 13)).file_size
         IN  UdpClientAt([c EXCEPT !.file_size = size, !.segments = Segments(size)], 0)
    ELSE c

UdpServerRecv(data) ==
    /\ udp_client.pc = "listen"
    /\ udp_client' = UdpServerRecvStep(udp_client, data)
    /\ UNCHANGED tcp_client
    /\ UNCHANGED client_vars

\* the frame of pass i of "for i in range(segments)"
PayloadFrame(size, segments, i) ==
    Datagram(PackHeader(MAGIC_COOKIE, PAYLOAD_MESSAGE_TYPE, segments, i),
             Min(udp_chunk_size, size - (i * udp_chunk_size)))

\* one pass of the loop: the frame is sent
UdpClientSendStep(c) ==
    UdpClientAt([c EXCEPT !.out = Append(@, PayloadFrame(c.file_size, c.segments, c.i))],
                c.i + 1)

UdpClientSend ==
    /\ udp_client.pc = "send"
    /\ udp_client' = UdpClientSendStep(udp_client)
    /\ UNCHANGED tcp_client
    /\ UNCHANGED client_vars

\* udp_socket.sendto raises: except Exception logs the error
UdpClientSendError ==
    /\ udp_client.pc = "send"
    /\ udp_client' = [udp_client EXCEPT !.pc = "done", !.logged = "error"]
    /\ UNCHANGED tcp_client
    /\ UNCHANGED client_vars

ServerIdle == tcp_client = IdleTcpClient /\ udp_client = ListeningUdp

\* one connection accepted and the UDP listener waiting
ServerInit ==
    /\ tcp_client \in {AcceptedTcpClient(size) : size \in SizesAround(tcp_chunk_size)}
    /\ udp_client = ListeningUdp

ServerNext ==
    \/ \E k \in 0..1024 : TcpClientRecv(k)
    \/ \E short \in 0..MaxShort : TcpClientSend(short)
    \/ TcpClientSendError
    \/ \E data \in RequestDatagrams : UdpServerRecv(data)
    \/ UdpClientSend
    \/ UdpClientSendError

\* the responders of the server, with the client left as constructed
InitServer == ClientInit /\ ServerInit
ServerSpec == InitServer /\ [][ServerNext]_vars

-----------------------------------------------------------------------------
(* The client against an arbitrary network *)

ConnIds == 1..MaxThreads

Init == ClientInit /\ ServerIdle

Next ==
    \/ Start
    \/ \E r1 \in FileSizeInputs, r2, r3 \in ConnInputs : HandleStartup(r1, r2, r3)
    \/ BeginListen
    \/ \E data \in OfferDatagrams, ip \in Hosts : ListenRecv(data, ip)
    \/ Interrupt
    \/ BeginSpeedTest
    \/ SpawnTcp
    \/ SpawnUdp
    \/ JoinAll
    \/ \E line \in AnswerLines \cup {EOF, SIGINT} : PromptContinue(line)
    \/ \E i \in ConnIds, ok \in BOOLEAN : TcpConnect(i, ok)
    \/ \E i \in ConnIds, n \in 0..MaxRecv : TcpRecv(i, n)
    \/ \E i \in ConnIds : TcpRecvError(i)
    \/ \E i \in ConnIds, ok \in BOOLEAN : UdpSendRequest(i, ok)
    \/ \E i \in ConnIds, data \in WorkerDatagrams : UdpRecv(i, data)
    \/ \E i \in ConnIds : UdpTimeout(i)
    \/ \E i \in ConnIds : UdpRecvError(i)

Spec == Init /\ [][Next]_vars

\* The main thread goes on through its loops unless it is interrupted, a
\* started UDP thread runs up to its receive loop, and there
\* sock.settimeout(1.0) makes a recvfrom that is handed no datagram raise
\* socket.timeout after a second.  A TCP worker's recv has no timeout.
FairSpec ==
    /\ Spec
    /\ WF_vars(SpawnTcp) /\ WF_vars(SpawnUdp) /\ WF_vars(JoinAll)
    /\ \A i \in ConnIds : WF_vars(\E ok \in BOOLEAN : UdpSendRequest(i, ok))
    /\ \A i \in ConnIds : WF_vars(UdpTimeout(i))

-----------------------------------------------------------------------------
(* One speed test of the client against this repository's server: one TCP
   connection to _handle_tcp_client and one UDP request to
   _handle_udp_connections, over a network that splits the TCP streams into
   chunks and loses datagrams *)

\* a small file, and one of a chunk and a byte (two Payload frames)
LinkSizes == {MaxSmallFile, udp_chunk_size + 1}

\* an Offer has been accepted and _perform_speed_test is about to be called
LinkInit ==
    /\ state = "SPEED_TEST"
    /\ running = TRUE
    /\ current_server = <<"192.0.2.5", 13117, 12345>>
    /\ file_size \in LinkSizes
    /\ tcp_connections \in 0..1
    /\ udp_connections \in 0..1
    /\ pc = "loop"
    /\ delivered = 1
    /\ tcp_workers = <<>>
    /\ udp_workers = <<>>
    /\ log = <<MainLog("Received offer")>>
    /\ ServerIdle

\* TCP worker 1 connects and sends its request line; the server's accept()
\* returns the connection
LinkTcpConnect(ok) ==
    /\ 1 \in TcpIds /\ tcp_workers[1].pc = "start"
    /\ tcp_client.pc = "idle"
    /\ tcp_workers' = [tcp_workers EXCEPT ![1] = TcpConnectStep(@, 1, ok).w]
    /\ log' = Logged(TcpConnectStep(tcp_workers[1], 1, ok))
    /\ tcp_client' = IF ok THEN AcceptedTcpClient(file_size) ELSE tcp_client
    /\ UNCHANGED <<state, running, current_server, file_size, tcp_connections,
                   udp_connections, pc, delivered, udp_workers, udp_client>>

\* bytes the responder has put on the connection that worker 1 has not read
LinkAvailable ==
    IF 1 \in TcpIds /\ tcp_workers[1].pc = "recv"
    THEN tcp_client.sent - tcp_workers[1].received
    ELSE 0

\* sock.recv(4096) of TCP worker 1 returns n of the bytes on the connection,
\* or the empty chunk once the responder has closed and everything was read
\* (the reply to the small file is split in every way into chunks of up to
\* MaxRecv bytes; a larger reply is read in chunks as large as recv allows)
LinkTcpRecv(n) ==
    /\ 1 \in TcpIds /\ tcp_workers[1].pc = "recv"
    /\ IF n = 0
       THEN tcp_client.pc = "closed" /\ LinkAvailable = 0
       ELSE /\ n <= Min(4096, LinkAvailable)
            /\ file_size <= MaxSmallFile \/ n = Min(4096, LinkAvailable)
    /\ tcp_workers' = [tcp_workers EXCEPT ![1] = TcpRecvStep(@, 1, n).w]
    /\ log' = Logged(TcpRecvStep(tcp_workers[1], 1, n))
    /\ UNCHANGED <<state, running, current_server, file_size, tcp_connections,
                   udp_connections, pc, delivered, udp_workers>>
    /\ UNCHANGED server_vars

\* the Request of UDP worker 1, as line 159 packs it
LinkRequest == Datagram(PackRequest(MAGIC_COOKIE, REQUEST_MESSAGE_TYPE, file_size), 0)

\* UDP worker 1 sends its Request; unless it is lost, the server's recvfrom
\* returns it
LinkUdpSendRequest(ok, lost) ==
    /\ 1 \in UdpIds /\ udp_workers[1].pc = "start"
    /\ udp_client.pc = "listen"
    /\ udp_workers' =
         [udp_workers EXCEPT ![1] = IF ok THEN [@ EXCEPT !.pc = "recv"] ELSE DoneUdpWorker]
    /\ log' = IF ok THEN NoLog ELSE <<UdpError(1)>>
    /\ udp_client' =
         IF ok /\ ~lost THEN UdpServerRecvStep(udp_client, LinkRequest) ELSE udp_client
    /\ UNCHANGED <<state, running, current_server, file_size, tcp_connections,
                   udp_connections, pc, delivered, tcp_workers, tcp_client>>

\* the next frame the responder has sent reaches worker 1's recvfrom
LinkUdpDeliver ==
    /\ 1 \in UdpIds /\ udp_workers[1].pc = "recv"
    /\ delivered < Len(udp_client.out)
    /\ delivered' = delivered + 1
    /\ udp_workers' =
         [udp_workers EXCEPT ![1] = UdpAfterDatagram(@, 1, udp_client.out[delivered + 1]).w]
    /\ log' = Logged(UdpAfterDatagram(udp_workers[1], 1, udp_client.out[delivered + 1]))
    /\ UNCHANGED <<state, running, current_server, file_size, tcp_connections,
                   udp_connections, pc, tcp_workers>>
    /\ UNCHANGED server_vars

\* the next frame the responder has sent is lost (or finds the socket closed)
LinkUdpLose ==
    /\ 1 \in UdpIds
    /\ delivered < Len(udp_client.out)
    /\ delivered' = delivered + 1
    /\ log' = NoLog
    /\ UNCHANGED <<state, running, current_server, file_size, tcp_connections,
                   udp_connections, pc, tcp_workers, udp_workers>>
    /\ UNCHANGED server_vars

\* recv of TCP worker 1 returns a small chunk, all there is, or the empty chunk
LinkTcpRecvSome ==
    \E n \in (0..MaxRecv) \cup {Min(4096, LinkAvailable)} : LinkTcpRecv(n)

\* the responder's recv(1024) returns some first part of the request line
LinkTcpClientRecv == \E k \in 1..Len(tcp_client.inbound) : TcpClientRecv(k)

LinkNext ==
    \/ BeginSpeedTest
    \/ SpawnTcp
    \/ SpawnUdp
    \/ JoinAll
    \/ \E ok \in BOOLEAN : LinkTcpConnect(ok)
    \/ LinkTcpRecvSome
    \/ TcpRecvError(1)
    \/ LinkTcpClientRecv
    \/ \E short \in 0..MaxShort : TcpClientSend(short)
    \/ TcpClientSendError
    \/ \E ok, lost \in BOOLEAN : LinkUdpSendRequest(ok, lost)
    \/ LinkUdpDeliver
    \/ LinkUdpLose
    \/ UdpTimeout(1)
    \/ UdpRecvError(1)
    \/ UdpClientSend
    \/ UdpClientSendError

LinkSpec == LinkInit /\ [][LinkNext]_vars

\* The main thread and every started thread of client and server go on running
\* (no interrupt is delivered): a recv with data or a close to return does
\* return, and the UDP worker's recvfrom times out after a second when it is
\* handed no datagram.  Nothing is assumed of the network's datagram delivery.
LinkFairSpec ==
    /\ LinkSpec
    /\ WF_vars(BeginSpeedTest) /\ WF_vars(SpawnTcp) /\ WF_vars(SpawnUdp)
    /\ WF_vars(JoinAll)
    /\ WF_vars(\E ok \in BOOLEAN : LinkTcpConnect(ok))
    /\ WF_vars(LinkTcpRecvSome)
    /\ WF_vars(LinkTcpClientRecv)
    /\ WF_vars(\E short \in 0..MaxShort : TcpClientSend(short))
    /\ WF_vars(\E ok, lost \in BOOLEAN : LinkUdpSendRequest(ok, lost))
    /\ WF_vars(UdpTimeout(1))

-----------------------------------------------------------------------------
(* The three frames from their sender to their receiver: the server's Offer
   to _look_for_server, a UDP worker's Request to _handle_udp_connections,
   and Payload headers to a UDP worker *)

\* port numbers at the ends and at the byte borders of an unsigned 16-bit field
PortValues == {0, 1, 255, 256, 13117, 65535}
\* values of an unsigned 64-bit field, as far as 32-bit signed integers reach
U64Values == {0, 1, 255, 256, 65536, 2147483647}

\* the client listens with its parameters accepted
CodecInit ==
    /\ state = "LOOKING_FOR_SERVER"
    /\ running = TRUE
    /\ current_server = NoServer
    /\ file_size \in U64Values \ {0}
    /\ tcp_connections = 0
    /\ udp_connections = 1
    /\ pc = "listen"
    /\ delivered = 0
    /\ tcp_workers = <<>>
    /\ udp_workers = <<>>
    /\ log = NoLog
    /\ ServerIdle

\* the Offer a server with these two ports broadcasts reaches the listener
CodecOffer(udp_port, tcp_port, ip) ==
    ListenRecv(Datagram(PackOffer(MAGIC_COOKIE, OFFER_MESSAGE_TYPE, udp_port, tcp_port), 0),
               ip)

\* the Request of UDP worker 1 reaches the server
CodecRequest == LinkUdpSendRequest(TRUE, FALSE)

\* a Payload frame with this header and one payload byte is the first frame
\* to reach UDP worker 1
CodecPayload(total, seg) ==
    /\ 1 \in UdpIds
    /\ udp_workers[1].total_segments = None
    /\ UdpRecv(1, Datagram(PackHeader(MAGIC_COOKIE, PAYLOAD_MESSAGE_TYPE, total, seg), 1))

CodecNext ==
    \/ \E u, t \in PortValues : CodecOffer(u, t, "192.0.2.5")
    \/ BeginSpeedTest
    \/ SpawnUdp
    \/ CodecRequest
    \/ \E total, seg \in U64Values : CodecPayload(total, seg)

CodecSpec == CodecInit /\ [][CodecNext]_vars

-----------------------------------------------------------------------------
(* The orchestrator: _perform_speed_test and the state machine of start() *)

\* C1: while _perform_speed_test starts threads it has started no more than
\* tcp_connections TCP workers and udp_connections UDP workers, and whenever
\* the state is PROMPT_CONTINUE exactly that many of each have been started
\* and every one of them has ended.
C1_JoinBarrier ==
    /\ pc = "spawn" =>
          /\ Len(tcp_workers) <= tcp_connections
          /\ Len(udp_workers) <= udp_connections
    /\ state = "PROMPT_CONTINUE" =>
          /\ Len(tcp_workers) = tcp_connections
          /\ Len(udp_workers) = udp_connections
          /\ \A i \in 1..tcp_connections : tcp_workers[i].pc = "done"
          /\ \A i \in 1..udp_connections : udp_workers[i].pc = "done"

\* the join has just returned in a cycle with one worker of each kind
C1_Joined ==
    /\ state = "PROMPT_CONTINUE"
    /\ log = <<MainLog("All transfers complete")>>
    /\ tcp_connections = 1 /\ udp_connections = 1
    /\ Len(tcp_workers) = 1 /\ Len(udp_workers) = 1

StateEdges ==
    {<<"STARTUP", "LOOKING_FOR_SERVER">>, <<"LOOKING_FOR_SERVER", "SPEED_TEST">>,
     <<"SPEED_TEST", "PROMPT_CONTINUE">>, <<"PROMPT_CONTINUE", "STARTUP">>}

\* the answer the prompt "(y/n)" takes for yes, in either case
Affirmative(line) == line \in {<<"y">>, <<"Y">>}

\* C2: the state starts at STARTUP and changes only along STARTUP ->
\* LOOKING_FOR_SERVER -> SPEED_TEST -> PROMPT_CONTINUE -> STARTUP; at the
\* prompt the affirmative answer leads to STARTUP with the client still
\* running and any other answer (or a failing read) clears running and leaves
\* the state; once running has been cleared neither it nor the state changes.
C2_StateMachine ==
    /\ state = "STARTUP"
    /\ [][state' # state => <<state, state'>> \in StateEdges]_vars
    /\ [][\A line \in AnswerLines \cup {EOF, SIGINT} :
            PromptContinue(line) =>
                IF Affirmative(line)
                THEN state' = "STARTUP" /\ running'
                ELSE state' = state /\ ~running']_vars
    /\ [][pc # "new" /\ ~running => state' = state /\ ~running']_vars

\* a second cycle begins: back at STARTUP after a whole test
C2_BackAtStartup ==
    /\ state = "STARTUP" /\ running /\ pc = "loop"
    /\ current_server # NoServer
    /\ log = NoLog

-----------------------------------------------------------------------------
(* The discovery listener: _look_for_server *)

\* a datagram of the wire format's Offer: 9 bytes, cookie, type 0x2, two ports
IsOffer(data, udp_port, tcp_port) ==
    data = Datagram(MAGIC_COOKIE \o <<2>> \o BE(2, udp_port) \o BE(2, tcp_port), 0)
TooShort(data) == DLen(data) < 9
WrongCookie(data) == DLen(data) >= 4 /\ Slice(data, 4) # MAGIC_COOKIE
WrongType(data) == DLen(data) >= 5 /\ Slice(data, 5)[5] # 2

\* C3: a datagram handed to the listener that is too short or carries a wrong
\* cookie or a wrong type leaves state and current_server as they were and the
\* listener goes on listening; a valid Offer makes current_server the
\* sender's address with the Offer's two ports, moves the state to SPEED_TEST
\* and ends the listening; current_server is written by the listener only, and
\* there is no listening in any state but LOOKING_FOR_SERVER.
C3_FirstValidOffer ==
    /\ [][\A data \in OfferDatagrams, ip \in Hosts :
            ListenRecv(data, ip) =>
                /\ (TooShort(data) \/ WrongCookie(data) \/ WrongType(data)) =>
                      /\ state' = state /\ current_server' = current_server
                      /\ pc' = "listen"
                /\ \A u \in UdpPorts, t \in TcpPorts :
                      IsOffer(data, u, t) =>
                          /\ current_server' = <<ip, u, t>>
                          /\ state' = "SPEED_TEST"
                          /\ pc' = "loop"]_vars
    /\ [][current_server' # current_server =>
            pc = "listen" /\ state = "LOOKING_FOR_SERVER" /\ pc' = "loop"]_vars
    /\ [](pc = "listen" => state = "LOOKING_FOR_SERVER")

\* the second datagram of a listening phase was accepted, after a first one
\* that was not
C3_SecondAccepted ==
    /\ state = "SPEED_TEST" /\ pc = "loop"
    /\ delivered = 2
    /\ log = <<MainLog("Received offer")>>
    /\ current_server = <<"192.0.2.9", 13117, 12345>>

-----------------------------------------------------------------------------
(* The server's responders *)

CeilDiv(a, b) == (a + b - 1) \div b

RECURSIVE PayloadBytes(_)
\* the payload bytes of a sequence of frames, each a 21-byte header and its payload
PayloadBytes(frames) ==
    IF frames = <<>> THEN 0
    ELSE (DLen(Head(frames)) - 21) + PayloadBytes(Tail(frames))

\* C4: the frames _handle_udp_client has sent for a request of file size F
\* are Payload frames whose segment indices are 0, 1, 2, ... in this order,
\* each with totalSegments = ceil(F / 1024) in its header; there are never more
\* than ceil(F / 1024) of them, and when the transfer is logged as completed
\* there are exactly that many and their payloads add up to F bytes.
C4_UdpFrames ==
    LET F == udp_client.file_size
        out == udp_client.out
    IN  /\ Len(out) <= CeilDiv(F, 1024)
        /\ \A k \in 1..Len(out) :
              /\ Len(out[k].bytes) = 21
              /\ SubSeq(out[k].bytes, 1, 4) = MAGIC_COOKIE
              /\ out[k].bytes[5] = 4
              /\ FromBE(SubSeq(out[k].bytes, 6, 13)) = CeilDiv(F, 1024)
              /\ FromBE(SubSeq(out[k].bytes, 14, 21)) = k - 1
        /\ udp_client.logged = "completed" =>
              /\ Len(out) = CeilDiv(F, 1024)
              /\ PayloadBytes(out) = F

\* a request of one chunk and one byte has been answered with two frames, of
\* 1024 bytes and of 1 byte
C4_TwoFrames ==
    /\ udp_client.logged = "completed"
    /\ udp_client.file_size = 1025
    /\ Len(udp_client.out) = 2
    /\ udp_client.out[1].fill = 1024 /\ udp_client.out[2].fill = 1

\* C5: when _handle_tcp_client has logged its transfer as completed and
\* closed the connection, the bytes its send calls put on the connection
\* are as many as the file size asked for.
C5_SentAll ==
    (tcp_client.pc = "closed" /\ tcp_client.logged = "completed") =>
        tcp_client.sent = tcp_client.file_size

-----------------------------------------------------------------------------
(* The client's transfer workers *)

\* the Payload frames of the wire format with one payload byte: cookie, type
\* 0x4, totalSegments, segmentIndex
WireFrame ==
    [total \in 0..MaxSeg |->
        [seg \in 0..(MaxSeg - 1) |->
            Datagram(MAGIC_COOKIE \o <<4>> \o BE(8, total) \o BE(8, seg), 1)]]

\* the line a UDP worker logs for a finished transfer
UdpReport(id, bytes, rate) == LogLine("udp", id, "finished", bytes * 8, rate)

\* C6: a UDP worker all of whose frames so far carried totalSegments = K and
\* indices below K is handed one more such frame.  If with this frame every
\* index 0..K-1 has been received, the worker stops receiving in this very
\* step and logs a success rate of 100; otherwise it goes on receiving without
\* logging, its set of indices is the old set with the frame's index added,
\* and a frame whose index was in the set leaves the set's size as it was.
C6_CompleteAtKth ==
    [][delivered' = delivered + 1 =>
       \A i \in ConnIds, K \in 0..MaxSeg, seg \in 0..(MaxSeg - 1) :
         (/\ i \in UdpIds
          /\ udp_workers[i].pc = "recv"
          /\ udp_workers[i].total_segments \in {None, K}
          /\ udp_workers[i].received_segments \subseteq 0..(K - 1)
          /\ seg \in 0..(K - 1)
          /\ UdpRecv(i, WireFrame[K][seg]))
         =>
         IF udp_workers[i].received_segments \cup {seg} = 0..(K - 1)
         THEN /\ udp_workers'[i].pc = "done"
              /\ log' = <<UdpReport(i, udp_workers[i].received_bytes + 1, 100)>>
         ELSE /\ udp_workers'[i].pc = "recv"
              /\ log' = NoLog
              /\ udp_workers'[i].received_segments =
                     udp_workers[i].received_segments \cup {seg}
              /\ seg \in udp_workers[i].received_segments =>
                     Cardinality(udp_workers'[i].received_segments) =
                         Cardinality(udp_workers[i].received_segments)]_vars

\* worker 1 has stopped at its second frame and logged two payload bytes
\* with a success rate of 100
C6_StoppedAtSecond ==
    /\ 1 \in UdpIds /\ udp_workers[1].pc = "done"
    /\ delivered = 2
    /\ log = <<UdpReport(1, 2, 100)>>

\* a worker in its receive loop that has taken nothing from any frame
NothingReceived(i) ==
    /\ i \in UdpIds /\ udp_workers[i].pc = "recv"
    /\ udp_workers[i].received_segments = {}
    /\ udp_workers[i].total_segments = None
    /\ udp_workers[i].received_bytes = 0

\* C7: a UDP worker that waits in its receive loop having received nothing
\* eventually ends, and the timeout that ends it logs a finished transfer of
\* zero bytes with a success rate of 0 (and no error line).
C7_SilentServer ==
    /\ \A i \in ConnIds :
          NothingReceived(i) ~> (i \in UdpIds /\ udp_workers[i].pc = "done")
    /\ [][\A i \in ConnIds :
            (UdpTimeout(i) /\ NothingReceived(i)) =>
                /\ udp_workers'[i].pc = "done"
                /\ log' = <<UdpReport(i, 0, 0)>>]_vars

\* worker 1 has ended with the zero report in a phase in which the network
\* handed no datagram to any worker
C7_ZeroReport ==
    /\ 1 \in UdpIds /\ udp_workers[1].pc = "done"
    /\ delivered = 0
    /\ log = <<UdpReport(1, 0, 0)>>

\* C8: a datagram shorter than the Payload header, or with a wrong cookie or
\* type, handed to a UDP worker leaves the worker's set of indices, its
\* totalSegments and its byte count as they were, logs nothing, and the worker
\* is still in its receive loop.
C8_Discarded ==
    [][\A i \in ConnIds, data \in ForeignDatagrams \cup ShortDatagrams :
         UdpRecv(i, data) =>
             /\ udp_workers'[i] = udp_workers[i]
             /\ udp_workers'[i].pc = "recv"
             /\ log' = NoLog]_vars

\* worker i fails with a socket error: connect or send of a TCP worker, recv
\* of a TCP worker, socket or sendto of a UDP worker, recvfrom of a UDP worker
TcpFails(i) == TcpConnect(i, FALSE) \/ TcpRecvError(i)
UdpFails(i) == UdpSendRequest(i, FALSE) \/ UdpRecvError(i)

\* every TCP worker of the cycle has been started and has ended
TcpEnded ==
    /\ Len(tcp_workers) = tcp_connections
    /\ \A i \in TcpIds : tcp_workers[i].pc = "done"

\* C9: the step in which a worker fails with a socket error logs that
\* worker's error line, ends that worker, and changes neither the state nor
\* running nor the main thread's position nor any other worker; and after
\* such a failure, once no TCP worker is left running, the client reaches
\* PROMPT_CONTINUE unless it is interrupted (running cleared).
C9_FailureIsolated ==
    /\ [][\A i \in ConnIds :
            /\ TcpFails(i) =>
                  /\ log' = <<LogLine("tcp", i, "error", 0, 0)>>
                  /\ tcp_workers'[i].pc = "done"
                  /\ \A j \in TcpIds \ {i} : tcp_workers'[j] = tcp_workers[j]
                  /\ udp_workers' = udp_workers
                  /\ state' = state /\ running' = running /\ pc' = pc
            /\ UdpFails(i) =>
                  /\ log' = <<LogLine("udp", i, "error", 0, 0)>>
                  /\ udp_workers'[i].pc = "done"
                  /\ \A j \in UdpIds \ {i} : udp_workers'[j] = udp_workers[j]
                  /\ tcp_workers' = tcp_workers
                  /\ state' = state /\ running' = running /\ pc' = pc]_vars
    /\ \A i \in ConnIds :
          (/\ pc = "spawn"
           /\ log \in {<<LogLine("tcp", i, "error", 0, 0)>>,
                        <<LogLine("udp", i, "error", 0, 0)>>}
           /\ TcpEnded)
          ~> (state = "PROMPT_CONTINUE" \/ ~running)

\* TCP worker 1 has just failed while UDP worker 1 of the same cycle is in
\* its receive loop and the client is running its speed test
C9_SiblingRunning ==
    /\ state = "SPEED_TEST" /\ running /\ pc = "spawn"
    /\ log = <<LogLine("tcp", 1, "error", 0, 0)>>
    /\ 1 \in TcpIds /\ tcp_workers[1].pc = "done"
    /\ 1 \in UdpIds /\ udp_workers[1].pc = "recv"

\* the line a TCP worker logs for a transfer of so many bytes
TcpReport(id, bytes) == LogLine("tcp", id, "finished", bytes * 8, 100)

\* C10: when recv returns the empty chunk of a closed connection to a TCP
\* worker that has received fewer bytes than file_size, the worker ends and
\* the line it logs is not the line of a complete transfer of file_size bytes.
C10_PartialReported ==
    [][\A i \in ConnIds :
         (/\ i \in TcpIds
          /\ tcp_workers[i].pc = "recv"
          /\ tcp_workers[i].received < file_size
          /\ TcpRecv(i, 0))
         =>
         /\ tcp_workers'[i].pc = "done"
         /\ log' # <<TcpReport(i, file_size)>>]_vars

-----------------------------------------------------------------------------
(* Parameters, interruption and the cycle *)

\* the three lines typed are rejected: the first of them that is no number
\* comes before any failing read, or all three are numbers and one is out of
\* range
Rejected(r1, r2, r3) ==
    \/ r1.exc = "ValueError"
    \/ r1.exc = "none" /\ r2.exc = "ValueError"
    \/ r1.exc = "none" /\ r2.exc = "none" /\ r3.exc = "ValueError"
    \/ /\ r1.exc = "none" /\ r2.exc = "none" /\ r3.exc = "none"
       /\ (r1.val <= 0 \/ r2.val < 0 \/ r3.val < 0)

\* C11: whenever the state is LOOKING_FOR_SERVER or SPEED_TEST, file_size is
\* positive and the two connection counts are not negative; and a
\* _handle_startup that is given a line that is no number or a value out of
\* range leaves the state at STARTUP and the client running.
C11_ValidParameters ==
    /\ [](state \in {"LOOKING_FOR_SERVER", "SPEED_TEST"} =>
            file_size > 0 /\ tcp_connections >= 0 /\ udp_connections >= 0)
    /\ [][(state = "STARTUP" /\ pc = "loop") =>
            \A r1 \in FileSizeInputs :
              (r1.exc = "none" => file_size' = r1.val) =>
                \A r2 \in ConnInputs :
                  (r1.exc = "none" /\ r2.exc = "none" => tcp_connections' = r2.val) =>
                    \A r3 \in ConnInputs :
                      (Rejected(r1, r2, r3) /\ HandleStartup(r1, r2, r3)) =>
                          state' = "STARTUP" /\ running' /\ pc' = "loop"]_vars

\* in a repeated cycle a negative file size has just been rejected
C11_RejectedAgain ==
    /\ state = "STARTUP" /\ running /\ pc = "loop"
    /\ current_server # NoServer
    /\ file_size < 0
    /\ log = <<MainLog("Invalid input")>>

\* C12: the step that clears running changes no worker; once running is
\* cleared the state does not change, running stays cleared and no worker is
\* started; and a UDP worker that has not ended when the client has left
\* its loop goes on to its end.
C12_Interrupted ==
    /\ [][(running /\ ~running') =>
            tcp_workers' = tcp_workers /\ udp_workers' = udp_workers]_vars
    /\ [][(pc # "new" /\ ~running) =>
            /\ state' = state /\ ~running'
            /\ Len(tcp_workers') = Len(tcp_workers)
            /\ Len(udp_workers') = Len(udp_workers)]_vars
    /\ \A i \in ConnIds :
          (pc = "exit" /\ i \in UdpIds /\ udp_workers[i].pc # "done")
              ~> (i \in UdpIds /\ udp_workers[i].pc = "done")

\* after the interruption of a speed test, TCP worker 1 has received its
\* file and logged its line
C12_FinishedAfterExit ==
    /\ state = "SPEED_TEST" /\ ~running /\ pc = "exit"
    /\ log = <<LogLine("tcp", 1, "finished", file_size * 8, 100)>>
    /\ 1 \in TcpIds /\ tcp_workers[1].pc = "done"

-----------------------------------------------------------------------------
(* The client against the server *)

\* C13: TCP worker 1 has asked the responder for file_size bytes over a
\* connection on which no call failed and every send was taken whole.  Then
\* the step in which the worker ends is a recv that brings the bytes it has
\* received to exactly file_size, the responder has put exactly file_size
\* bytes on the connection, and the worker logs its one finished line.
C13_ExactTransfer ==
    [][\A n \in (0..MaxRecv) \cup {Min(4096, LinkAvailable)} :
         (/\ LinkTcpRecv(n)
          /\ tcp_workers'[1].pc = "done"
          /\ tcp_client.logged # "error"
          /\ tcp_client.sent + tcp_client.remaining = tcp_client.file_size)
         =>
         /\ tcp_workers[1].received + n = file_size
         /\ tcp_client.sent = file_size
         /\ log' = <<LogLine("tcp", 1, "finished", file_size * 8, 100)>>]_vars

\* C14: what the receiver's unpack makes of the frame the sender packed has
\* the cookie, the type tag (0x2, 0x3, 0x4) and the field values that were
\* packed, for the Offer, the Request and the Payload header; and so the
\* listener records the two ports of the Offer it is handed, the server takes
\* the file size of the Request it is handed, and a UDP worker takes
\* totalSegments and segmentIndex of the Payload frame it is handed.
C14_RoundTrip ==
    /\ [](/\ \A u, t \in PortValues :
              /\ UnpackOfferOk(PackOffer(MAGIC_COOKIE, 2, u, t))
              /\ UnpackOffer(PackOffer(MAGIC_COOKIE, 2, u, t)) =
                    [magic_cookie |-> <<171, 205, 220, 186>>, msg_type |-> 2,
                     udp_port |-> u, tcp_port |-> t]
          /\ \A size \in U64Values :
              /\ UnpackRequestOk(PackRequest(MAGIC_COOKIE, 3, size))
              /\ UnpackRequest(PackRequest(MAGIC_COOKIE, 3, size)) =
                    [magic_cookie |-> <<171, 205, 220, 186>>, msg_type |-> 3,
                     file_size |-> size]
          /\ \A total, seg \in U64Values :
              /\ UnpackHeaderOk(PackHeader(MAGIC_COOKIE, 4, total, seg))
              /\ UnpackHeader(PackHeader(MAGIC_COOKIE, 4, total, seg)) =
                    [magic_cookie |-> <<171, 205, 220, 186>>, msg_type |-> 4,
                     total_segs |-> total, current_seg |-> seg])
    /\ [][\A u, t \in PortValues :
            CodecOffer(u, t, "192.0.2.5") => current_server' = <<"192.0.2.5", u, t>>]_vars
    /\ [][CodecRequest =>
            udp_client'.pc # "listen" /\ udp_client'.file_size = file_size]_vars
    /\ [][\A total, seg \in U64Values :
            (CodecPayload(total, seg) /\ udp_workers'[1].pc = "recv") =>
                /\ udp_workers'[1].total_segments = total
                /\ seg \in udp_workers'[1].received_segments]_vars

\* the largest values have gone through: the ports of the Offer, the file
\* size of the Request, and a Payload header
C14_LargestValues ==
    /\ current_server # NoServer
    /\ current_server[2] = 65535 /\ current_server[3] = 65535
    /\ file_size = 2147483647 /\ udp_client.file_size = 2147483647
    /\ 1 \in UdpIds /\ udp_workers[1].pc = "recv"
    /\ udp_workers[1].total_segments = 2147483647
    /\ 2147483647 \in udp_workers[1].received_segments

\* C15: the totalSegments a UDP worker has recorded is the one of the first
\* valid Payload frame of its transfer: once recorded, no later pass of the
\* receive loop changes it while the worker goes on receiving.
C15_FirstTotalWins ==
    [][\A i \in ConnIds :
         (/\ i \in UdpIds /\ udp_workers[i].pc = "recv"
          /\ udp_workers[i].total_segments # None
          /\ i <= Len(udp_workers') /\ udp_workers'[i].pc = "recv")
         => udp_workers'[i].total_segments = udp_workers[i].total_segments]_vars

\* a cycle's workers are under way: one is spawned and has not ended, or the
\* spawn loops have started a worker and the join loop has not returned
CycleUnderWay ==
    \/ ~WorkersDone
    \/ pc = "spawn" /\ Len(tcp_workers) + Len(udp_workers) > 0

\* C16: from the spawn of a cycle's first worker until its last worker has
\* ended, no step changes file_size, tcp_connections, udp_connections or
\* current_server.
C16_ParametersHeld ==
    [][CycleUnderWay =>
         /\ file_size' = file_size
         /\ tcp_connections' = tcp_connections
         /\ udp_connections' = udp_connections
         /\ current_server' = current_server]_vars

\* between spawn and join the TCP worker has ended and the UDP worker, one
\* frame taken, is still receiving from the recorded server
C16_WorkerRunning ==
    /\ state = "SPEED_TEST" /\ pc = "spawn"
    /\ file_size = 1 /\ tcp_connections = 1 /\ udp_connections = 1
    /\ Len(tcp_workers) = 1 /\ tcp_workers[1].pc = "done"
    /\ Len(udp_workers) = 1 /\ udp_workers[1].pc = "recv"
    /\ udp_workers[1].received_segments = {0}
    /\ current_server = <<"192.0.2.9", 13117, 12345>>

\* how many of these lines are outcome reports of this worker
ReportsOf(thread, i, lines) ==
    Cardinality({k \in DOMAIN lines :
                    /\ lines[k].thread = thread /\ lines[k].id = i
                    /\ lines[k].msg \in {"finished", "error"}})
\* how many lines of these come from this worker at all
LinesOf(thread, i, lines) ==
    Cardinality({k \in DOMAIN lines : lines[k].thread = thread /\ lines[k].id = i})

\* C17: the step in which a worker ends logs exactly one line of that worker,
\* its result or its error; no other step logs a line of that worker, so an
\* ended worker has reported once and never reports again; and the
\* orchestrator leaves SPEED_TEST only when every worker has ended.
C17_OneReport ==
    [][/\ \A i \in ConnIds :
            /\ LinesOf("tcp", i, log') =
                  IF /\ i \in TcpIds /\ tcp_workers[i].pc # "done"
                     /\ tcp_workers'[i].pc = "done"
                  THEN 1 ELSE 0
            /\ LinesOf("udp", i, log') =
                  IF /\ i \in UdpIds /\ udp_workers[i].pc # "done"
                     /\ udp_workers'[i].pc = "done"
                  THEN 1 ELSE 0
            /\ ReportsOf("tcp", i, log') = LinesOf("tcp", i, log')
            /\ ReportsOf("udp", i, log') = LinesOf("udp", i, log')
       /\ (state = "SPEED_TEST" /\ state' # "SPEED_TEST") => WorkersDone]_vars

\* the UDP worker has just reported an error, after the TCP worker has
\* ended, and the join has not yet returned
C17_LastReported ==
    /\ state = "SPEED_TEST" /\ pc = "spawn"
    /\ log = <<UdpError(1)>>
    /\ Len(tcp_workers) = 1 /\ Len(udp_workers) = 1
    /\ WorkersDone

\* C18: the success rate in a UDP worker's result line is between 0 and 100,
\* whatever datagrams the worker was handed before it ended.
C18_RateWithinHundred ==
    \A k \in DOMAIN log :
        (log[k].thread = "udp" /\ log[k].msg = "finished") =>
            (0 <= log[k].success_rate /\ log[k].success_rate <= 100)

\* C19: against the server, with every thread running on and whichever
\* datagrams lost, the join returns: the client reaches PROMPT_CONTINUE with
\* every worker it was to spawn spawned and ended.
C19_Completes ==
    <>(/\ state = "PROMPT_CONTINUE"
       /\ Len(tcp_workers) = tcp_connections /\ Len(udp_workers) = udp_connections
       /\ WorkersDone)

\* the cycle with one worker of each kind is over although the UDP worker's
\* Request was lost and the responder never answered it
C19_DoneDespiteLoss ==
    /\ state = "PROMPT_CONTINUE"
    /\ tcp_connections = 1 /\ udp_connections = 1
    /\ Len(tcp_workers) = 1 /\ Len(udp_workers) = 1 /\ WorkersDone
    /\ tcp_client.pc = "closed" /\ tcp_client.logged = "completed"
    /\ udp_client.pc = "listen"

\* C20: in SPEED_TEST a server is recorded; the state is entered only by the
\* listener's step that accepts an Offer, and that step records the sender's
\* address with the ports of that Offer; the record is not changed while the
\* state is SPEED_TEST; and no step leads from SPEED_TEST back to
\* LOOKING_FOR_SERVER.
C20_ServerOfThisCycle ==
    /\ [](state = "SPEED_TEST" => current_server # NoServer)
    /\ [][(state # "SPEED_TEST" /\ state' = "SPEED_TEST") =>
            \E data \in OfferDatagrams, ip \in Hosts :
                /\ OfferAccepted(data)
                /\ ListenRecv(data, ip)
                /\ current_server' = <<ip, UnpackOffer(data.bytes).udp_port,
                                        UnpackOffer(data.bytes).tcp_port>>]_vars
    /\ [][(state = "SPEED_TEST" /\ state' = "SPEED_TEST") =>
            current_server' = current_server]_vars
    /\ [][state = "SPEED_TEST" => state' # "LOOKING_FOR_SERVER"]_vars

\* a later cycle has just entered SPEED_TEST (the ended workers of the cycle
\* before are still listed) with the server of the Offer just accepted
C20_LaterCycle ==
    /\ state = "SPEED_TEST" /\ pc = "loop" /\ running
    /\ log = <<MainLog("Received offer")>>
    /\ Len(tcp_workers) + Len(udp_workers) > 0 /\ WorkersDone
    /\ current_server = <<"192.0.2.5", 13117, 12345>>

====
